---- MODULE Spec2Model ----
(***************************************************************************)
(* Exoplanet classifier: the /predict endpoint of the Express server       *)
(* (mockPredict and its validation) and the React form that calls it.      *)
(*                                                                         *)
(* Numbers.  The class weights and probabilities are IEEE-754 doubles.     *)
(* Every double the scorer can produce lies in [1/8, 2), so it is an exact *)
(* multiple of 2^-56; a double is kept as <<hi, lo>> standing for          *)
(* (hi * 2^28 + lo) * 2^-56, and + and / round to 53 significant bits,     *)
(* ties to even, as the hardware does.  Feature values are only compared   *)
(* and passed through; they are kept as JS numbers in tenths.              *)
(***************************************************************************)
EXTENDS Integers, Sequences, FiniteSets, TLC

----------------------------------------------------------------------------
(* Two-limb naturals.                                                      *)

LimbBase == 2^28

FracBits == 56

Zero == <<0, 0>>

Add(x, y) ==
    LET lo == x[2] + y[2]
    IN  IF lo >= LimbBase THEN <<x[1] + y[1] + 1, lo - LimbBase>>
        ELSE <<x[1] + y[1], lo>>

Sub(x, y) ==
    IF x[2] >= y[2] THEN <<x[1] - y[1], x[2] - y[2]>>
    ELSE <<x[1] - y[1] - 1, x[2] + LimbBase - y[2]>>

Geq(x, y) == x[1] > y[1] \/ (x[1] = y[1] /\ x[2] >= y[2])

Gt(x, y) == x[1] > y[1] \/ (x[1] = y[1] /\ x[2] > y[2])

(* Binary long division.  s = <<q, r>> holds the quotient bits produced so  *)
(* far and the running remainder r < b; n more bits are produced.          *)
RECURSIVE LongDiv(_, _, _)
LongDiv(s, b, n) ==
    IF n = 0 THEN s
    ELSE LET r2 == Add(s[2], s[2])
             q2 == Add(s[1], s[1])
         IN  IF Geq(r2, b) THEN LongDiv(<<Add(q2, <<0, 1>>), Sub(r2, b)>>, b, n - 1)
             ELSE LongDiv(<<q2, r2>>, b, n - 1)

----------------------------------------------------------------------------
(* IEEE-754 binary64 on [1/8, 2).                                          *)

(* The weight of the last kept bit of v, in units of 2^-56.                *)
Ulp(v) ==
    CASE v[1] >= 2^28 /\ v[1] < 2^29 -> 16
      [] v[1] >= 2^27 /\ v[1] < 2^28 -> 8
      [] v[1] >= 2^26 /\ v[1] < 2^27 -> 4
      [] v[1] >= 2^25 /\ v[1] < 2^26 -> 2

(* Round the exact value v (plus a non-zero tail below 2^-56 when sticky)  *)
(* to the nearest double, ties to even: low is what lies below the last    *)
(* kept bit, whose weight is u.                                            *)
RoundLow(v, sticky, u, low) ==
    IF \/ 2 * low > u
       \/ 2 * low = u /\ sticky
       \/ 2 * low = u /\ ~sticky /\ ((v[2] - low) \div u) % 2 = 1
    THEN Add(<<v[1], v[2] - low>>, <<0, u>>)
    ELSE <<v[1], v[2] - low>>

RoundAt(v, sticky, u) == RoundLow(v, sticky, u, v[2] % u)

RoundDouble(v, sticky) == RoundAt(v, sticky, Ulp(v))

(* x + y and x / y of JavaScript numbers (x < y for the division).         *)
fadd(x, y) == RoundDouble(Add(x, y), FALSE)

RoundQuotient(d) == RoundDouble(d[1], d[2] # Zero)

fdiv(x, y) == RoundQuotient(LongDiv(<<Zero, x>>, y, FracBits))

(* The double a decimal literal n/d denotes: the double nearest to n/d.    *)
Literal(n, d) == fdiv(<<0, n>>, <<0, d>>)

----------------------------------------------------------------------------
(* JavaScript values as they arrive in a JSON body.  t is the type tag; n  *)
(* is a finite number in tenths (t = "num"), the sign of an infinity       *)
(* (t = "inf") or a boolean as 0/1 (t = "bool"); s is the text of a string *)
(* (t = "str"), one character per element.                                 *)

Num(n)  == [t |-> "num",  n |-> n, s |-> <<>>]
Inf(sg) == [t |-> "inf",  n |-> sg, s |-> <<>>]
NaN     == [t |-> "nan",  n |-> 0, s |-> <<>>]
Str(cs) == [t |-> "str",  n |-> 0, s |-> cs]
Null    == [t |-> "null", n |-> 0, s |-> <<>>]
Bool(b) == [t |-> "bool", n |-> b, s |-> <<>>]
undefined == [t |-> "undefined", n |-> 0, s |-> <<>>]

DigitChars == <<"0", "1", "2", "3", "4", "5", "6", "7", "8", "9">>

IsDigit(c) == c \in {"0", "1", "2", "3", "4", "5", "6", "7", "8", "9"}

DigitVal(c) ==
    CASE c = "0" -> 0 [] c = "1" -> 1 [] c = "2" -> 2 [] c = "3" -> 3 [] c = "4" -> 4
      [] c = "5" -> 5 [] c = "6" -> 6 [] c = "7" -> 7 [] c = "8" -> 8 [] c = "9" -> 9

(* StrWhiteSpaceChar: space, tab, line terminators.                        *)
IsWhiteSpace(c) == c \in {" ", "\t", "\n", "\r"}

RECURSIVE NatToStr(_)
NatToStr(k) ==
    IF k < 10 THEN <<DigitChars[k + 1]>>
    ELSE Append(NatToStr(k \div 10), DigitChars[(k % 10) + 1])

(* Number::toString for a finite number in tenths (plain decimal notation, *)
(* which is what JavaScript prints between 1e-6 and 1e21).                 *)
NumToStr(n) ==
    LET a    == IF n < 0 THEN -n ELSE n
        body == IF a % 10 = 0 THEN NatToStr(a \div 10)
                ELSE NatToStr(a \div 10) \o <<".", DigitChars[(a % 10) + 1]>>
    IN  IF n < 0 THEN <<"-">> \o body ELSE body

InfinityChars == <<"I", "n", "f", "i", "n", "i", "t", "y">>

(* JSToString(v), the first step of parseFloat(v).                           *)
JSToString(v) ==
    CASE v.t = "str"  -> v.s
      [] v.t = "num"  -> NumToStr(v.n)
      [] v.t = "inf"  -> IF v.n < 0 THEN <<"-">> \o InfinityChars ELSE InfinityChars
      [] v.t = "nan"  -> <<"N", "a", "N">>
      [] v.t = "null" -> <<"n", "u", "l", "l">>
      [] v.t = "bool" -> IF v.n = 1 THEN <<"t", "r", "u", "e">>
                         ELSE <<"f", "a", "l", "s", "e">>
      [] v.t = "undefined" -> <<"u", "n", "d", "e", "f", "i", "n", "e", "d">>

Drop(cs, k) == SubSeq(cs, k + 1, Len(cs))

RECURSIVE SkipWhiteSpace(_)
SkipWhiteSpace(cs) ==
    IF cs # <<>> /\ IsWhiteSpace(Head(cs)) THEN SkipWhiteSpace(Tail(cs)) ELSE cs

(* The number of leading decimal digits of cs.                             *)
RECURSIVE DigitRun(_)
DigitRun(cs) ==
    IF cs # <<>> /\ IsDigit(Head(cs)) THEN 1 + DigitRun(Tail(cs)) ELSE 0

(* The natural number written by the digits ds, with acc to their left.    *)
RECURSIVE DigitsToNat(_, _)
DigitsToNat(ds, acc) ==
    IF ds = <<>> THEN acc ELSE DigitsToNat(Tail(ds), 10 * acc + DigitVal(Head(ds)))

RECURSIVE Pow10(_)
Pow10(k) == IF k = 0 THEN 1 ELSE 10 * Pow10(k - 1)

(* The largest decimal exponent of a finite double: 1.797...e308.          *)
MaxDecimalExponent == 308

(* m * 10^e as a JS number in tenths; a magnitude of 1e309 or more is      *)
(* Infinity.  Finite values are exact multiples of 0.1 here.               *)
Scale10(sg, m, e) ==
    CASE m = 0 -> Num(0)
      [] m # 0 /\ Len(NatToStr(m)) + e - 1 > MaxDecimalExponent -> Inf(sg)
      [] m # 0 /\ Len(NatToStr(m)) + e - 1 <= MaxDecimalExponent /\ e >= -1
             -> Num(sg * m * Pow10(e + 1))
      [] m # 0 /\ e < -1 /\ m % Pow10(-e - 1) = 0
             -> Num(sg * (m \div Pow10(-e - 1)))

(* The value of the digits at the start of cs, 0 when there are none.      *)
DigitsValue(cs) == DigitsToNat(SubSeq(cs, 1, DigitRun(cs)), 0)

(* The exponent part at the start of cs: e or E, an optional sign, digits. *)
SignedExponent(cs) ==
    IF cs # <<>> /\ Head(cs) = "-" THEN -DigitsValue(Tail(cs))
    ELSE IF cs # <<>> /\ Head(cs) = "+" THEN DigitsValue(Tail(cs))
    ELSE DigitsValue(cs)

Exponent(cs) ==
    IF cs # <<>> /\ Head(cs) \in {"e", "E"} THEN SignedExponent(Tail(cs)) ELSE 0

(* ds: the digits of the mantissa, nf of them after the point; cs: what    *)
(* follows the mantissa.                                                   *)
ParseAfterMantissa(sg, ds, nf, cs) ==
    IF ds = <<>> THEN NaN ELSE Scale10(sg, DigitsToNat(ds, 0), Exponent(cs) - nf)

(* The fraction at the start of cs: a point and the digits after it.       *)
FracLen(cs) == IF cs # <<>> /\ Head(cs) = "." THEN DigitRun(Tail(cs)) ELSE 0

FracDigits(cs) == SubSeq(cs, 2, 1 + FracLen(cs))

AfterFrac(cs) == IF cs # <<>> /\ Head(cs) = "." THEN Drop(cs, 1 + FracLen(cs)) ELSE cs

ParseAfterInt(sg, ds, cs) ==
    ParseAfterMantissa(sg, ds \o FracDigits(cs), FracLen(cs), AfterFrac(cs))

ParseDecimal(sg, cs, ni) == ParseAfterInt(sg, SubSeq(cs, 1, ni), Drop(cs, ni))

ParseUnsigned(sg, cs) ==
    IF Len(cs) >= 8 /\ SubSeq(cs, 1, 8) = InfinityChars THEN Inf(sg)
    ELSE ParseDecimal(sg, cs, DigitRun(cs))

Sign(cs) == IF cs # <<>> /\ Head(cs) = "-" THEN -1 ELSE 1

Unsigned(cs) == IF cs # <<>> /\ Head(cs) \in {"+", "-"} THEN Tail(cs) ELSE cs

ParseTrimmed(cs) == ParseUnsigned(Sign(cs), Unsigned(cs))

(* parseFloat: ToString, skip leading white space, then the value of the   *)
(* longest prefix that is a StrDecimalLiteral, NaN when there is none.     *)
parseFloat(v) == ParseTrimmed(SkipWhiteSpace(JSToString(v)))

isNaN(x) == x.t = "nan"

----------------------------------------------------------------------------
(* mockPredict.                                                            *)

(* x > c and x < c for a JS number x and a finite c in tenths.             *)
JsGt(x, c) == (x.t = "inf" /\ x.n > 0) \/ (x.t = "num" /\ x.n > c)

JsLt(x, c) == (x.t = "inf" /\ x.n < 0) \/ (x.t = "num" /\ x.n < c)

(* Math.random() returns k / RandGrid for some k in 0 .. RandGrid - 1.     *)
RandGrid == 3

labels == <<"Confirmed", "Candidate", "False Positive">>

featureNames ==
    <<"koi_period", "koi_prad", "koi_sma", "koi_incl", "koi_teq",
      "koi_slogg", "koi_srad", "koi_smass", "koi_steff">>

NumFeatures == 9

TopK == 3

(* An element of an array; undefined past its end.                         *)
At(xs, i) == IF i <= Len(xs) THEN xs[i] ELSE undefined

(* const [koi_period, koi_prad, koi_sma, koi_incl, koi_teq, ...] = features *)
koi_period(features) == At(features, 1)

koi_prad(features) == At(features, 2)

koi_teq(features) == At(features, 5)

(* The first guard with >= 0.5 for > 0.5.                                  *)
ConfirmedRule_Inclusive(features) ==
    /\ ~JsLt(koi_prad(features), 5) /\ koi_prad(features).t \in {"num", "inf"}
    /\ JsLt(koi_prad(features), 40)
    /\ JsGt(koi_teq(features), 2000) /\ JsLt(koi_teq(features), 4000)

(* The three guards (thresholds in tenths).                                *)
ConfirmedRule(features) ==
    /\ JsGt(koi_prad(features), 5) /\ JsLt(koi_prad(features), 40)
    /\ JsGt(koi_teq(features), 2000) /\ JsLt(koi_teq(features), 4000)

LargeRadiusRule(features) == JsGt(koi_prad(features), 100)

ShortPeriodRule(features) == JsLt(koi_period(features), 10)

(* The literals of mockPredict, as doubles.                                *)
BaseConfirmed == Literal(33, 100)

(* The Candidate base weight level with the False Positive one.            *)
BaseCandidate_Tied == Literal(34, 100)

BaseCandidate == Literal(33, 100)

BaseFalsePositive == Literal(34, 100)

ConfirmedBonus == Literal(2, 10)

LargeRadiusBonus == Literal(3, 10)

ShortPeriodBonus == Literal(2, 10)

(* <<confirmedProb, candidateProb, falsePositiveProb>> before the          *)
(* normalisation, given which guards hold.                                 *)
WeightsOf(cr, lr, sr) ==
    LET c1 == IF cr THEN fadd(BaseConfirmed, ConfirmedBonus) ELSE BaseConfirmed
        f1 == IF lr THEN fadd(BaseFalsePositive, LargeRadiusBonus)
              ELSE BaseFalsePositive
        f2 == IF sr THEN fadd(f1, ShortPeriodBonus) ELSE f1
    IN  <<c1, BaseCandidate, f2>>

Weights(features) ==
    WeightsOf(ConfirmedRule(features), LargeRadiusRule(features),
              ShortPeriodRule(features))

NormalizeBy(w, total) ==
    <<fdiv(w[1], total), fdiv(w[2], total), fdiv(w[3], total)>>

(* Normalize dividing by a total taken before the false-positive bonuses.  *)
Normalize_StaleTotal(w) == NormalizeBy(w, fadd(fadd(w[1], w[2]), BaseFalsePositive))

Normalize(w) == NormalizeBy(w, fadd(fadd(w[1], w[2]), w[3]))

(* The weights depend on the features through the three guards only: the   *)
(* normalised weights, computed once for each outcome of the guards.       *)
Normalized ==
    LET n(cr, lr, sr) == Normalize(WeightsOf(cr, lr, sr))
    IN  <<<<<<n(FALSE, FALSE, FALSE), n(FALSE, FALSE, TRUE)>>,
            <<n(FALSE, TRUE, FALSE), n(FALSE, TRUE, TRUE)>>>>,
          <<<<n(TRUE, FALSE, FALSE), n(TRUE, FALSE, TRUE)>>,
            <<n(TRUE, TRUE, FALSE), n(TRUE, TRUE, TRUE)>>>>>>

Bit(b) == IF b THEN 2 ELSE 1

Probabilities(features) ==
    Normalized[Bit(ConfirmedRule(features))][Bit(LargeRadiusRule(features))]
              [Bit(ShortPeriodRule(features))]

(* Math.max that leaves out the last class.                                *)
MathMax_FirstTwo(p) == IF Gt(p[2], p[1]) THEN p[2] ELSE p[1]

(* Math.max(...p) and p.indexOf(m), 1-based.                               *)
MathMax(p) ==
    LET m12 == IF Gt(p[2], p[1]) THEN p[2] ELSE p[1]
    IN  IF Gt(p[3], m12) THEN p[3] ELSE m12

IndexOf(p, m) == CHOOSE i \in 1..Len(p) : p[i] = m /\ \A j \in 1..(i - 1) : p[j] # m

Abs(x) == IF x < 0 THEN -x ELSE x

(* (Math.random() - 0.5) * 4                                               *)
Importance_Wide(k) == 2 * (2 * k - RandGrid)

(* (Math.random() - 0.5) * 2 in units of 1 / RandGrid, for the draw        *)
(* k / RandGrid.                                                           *)
Importance(k) == 2 * k - RandGrid

(* features.map(...): one contribution per feature, in the order of the    *)
(* draws.                                                                  *)
RECURSIVE MapShap(_, _, _)
MapShap(features, rnd, index) ==
    IF index > Len(features) THEN <<>>
    ELSE <<[feature |-> At(featureNames, index), importance |-> Importance(rnd[index]),
            value |-> features[index]]>> \o MapShap(features, rnd, index + 1)

shapValues(features, rnd) == MapShap(features, rnd, 1)

(* The comparator without Math.abs.                                        *)
Compare_Signed(a, b) == b.importance - a.importance

(* The comparator of the sort: negative when a goes before b.              *)
Compare(a, b) == Abs(b.importance) - Abs(a.importance)

(* Array.prototype.sort is stable: x goes in front of the first element it *)
(* must strictly precede.                                                  *)
RECURSIVE Insert(_, _)
Insert(x, sorted) ==
    IF sorted = <<>> THEN <<x>>
    ELSE IF Compare(x, Head(sorted)) < 0 THEN <<x>> \o sorted
    ELSE <<Head(sorted)>> \o Insert(x, Tail(sorted))

RECURSIVE Sort(_, _)
Sort(xs, sorted) ==
    IF xs = <<>> THEN sorted ELSE Sort(Tail(xs), Insert(Head(xs), sorted))

Slice(xs, k) == SubSeq(xs, 1, IF k < Len(xs) THEN k ELSE Len(xs))

(* The object mockPredict returns for the probabilities p.                 *)
Prediction(p, top) ==
    [predicted_class |-> labels[IndexOf(p, MathMax(p))],
     probabilities   |-> [l \in {"Confirmed", "Candidate", "False Positive"} |->
                             CASE l = "Confirmed" -> p[1]
                               [] l = "Candidate" -> p[2]
                               [] l = "False Positive" -> p[3]],
     top_features    |-> top]

topFeatures(features, rnd) == Slice(Sort(shapValues(features, rnd), <<>>), TopK)

(* mockPredict letting the first draw decide the score.                    *)
mockPredict_Noisy(features, rnd) ==
    Prediction(IF rnd[1] = 0 THEN Normalized[1][1][1] ELSE Probabilities(features),
               topFeatures(features, rnd))

mockPredict(features, rnd) ==
    Prediction(Probabilities(features), topFeatures(features, rnd))

----------------------------------------------------------------------------
(* The /predict handler.                                                   *)

(* The value of req.body.features.  k is its JS type; n its value when it  *)
(* is a number (tenths); len its length property (-1: undefined); items    *)
(* its elements when it is an array.                                       *)
Undefined    == [k |-> "undefined", n |-> 0, len |-> -1, items |-> <<>>]
NullFeatures == [k |-> "null",   n |-> 0, len |-> -1, items |-> <<>>]
NumberF(n)   == [k |-> "number", n |-> n, len |-> -1, items |-> <<>>]
StringF(len) == [k |-> "string", n |-> 0, len |-> len, items |-> <<>>]
ObjectF(len) == [k |-> "object", n |-> 0, len |-> len, items |-> <<>>]
ArrayF(xs)   == [k |-> "array",  n |-> 0, len |-> Len(xs), items |-> xs]

(* !features                                                               *)
Falsy(f) ==
    \/ f.k \in {"undefined", "null"}
    \/ f.k = "number" /\ f.n = 0
    \/ f.k = "string" /\ f.len = 0

(* JSON.stringify of a value inside an object or array, read back by       *)
(* JSON.parse: a number that is not finite is written as null.             *)
JsonRoundTrip(v) ==
    CASE v.t = "num"            -> parseFloat(Str(NumToStr(v.n)))
      [] v.t \in {"inf", "nan"} -> Null
      [] v.t \in {"str", "null", "bool"} -> v

(* res.json(prediction)                                                    *)
RECURSIVE JsonFeatures(_)
JsonFeatures(fs) ==
    IF fs = <<>> THEN <<>>
    ELSE <<[Head(fs) EXCEPT !.value = JsonRoundTrip(@)]>> \o JsonFeatures(Tail(fs))

ResJson(prediction) ==
    [prediction EXCEPT !.top_features = JsonFeatures(@)]

ShapeError == [error |-> "Invalid input: Expected 9 features"]

NotNumericError == [error |-> "All features must be numeric values"]

InternalError ==
    [error |-> "Prediction failed", details |-> "features.map is not a function"]

(* features.map(f => parseFloat(f))                                        *)
RECURSIVE MapParseFloat(_)
MapParseFloat(xs) ==
    IF xs = <<>> THEN <<>> ELSE <<parseFloat(Head(xs))>> \o MapParseFloat(Tail(xs))

numericFeatures(f) == MapParseFloat(f.items)

(* The shape check with "> 9" for "!== 9".                                 *)
ShapeOk_AtMost(f) == ~(Falsy(f) \/ f.len > NumFeatures)

(* !(!features || features.length !== 9)                                   *)
ShapeOk(f) == ~(Falsy(f) \/ f.len # NumFeatures)

(* The numeric check with every for some.                                  *)
SomeNaN_Every(nf) == \A i \in 1..Len(nf) : isNaN(nf[i])

(* numericFeatures.some(f => isNaN(f))                                     *)
SomeNaN(nf) == \E i \in 1..Len(nf) : isNaN(nf[i])

Failure(status, json) ==
    [status |-> status, json |-> json, mockCalls |-> 0, drawn |-> 0, weights |-> <<>>]

(* The handler once features is known to be an array of nine elements.     *)
PredictNumeric(nf, rnd) ==
    IF SomeNaN(nf) THEN Failure(400, NotNumericError)
    ELSE [status |-> 200, json |-> ResJson(mockPredict(nf, rnd)),
          mockCalls |-> 1, drawn |-> Len(nf), weights |-> Weights(nf)]

(* The handler on the body { features: f } when Math.random() is about to  *)
(* return rnd[1], rnd[2], ...: the response; how often mockPredict and     *)
(* Math.random were called; the weights mockPredict held before it         *)
(* normalised them.  A features value without a map method makes           *)
(* features.map throw, which the catch clause answers.                     *)
PredictHandler(f, rnd) ==
    IF ~ShapeOk(f) THEN Failure(400, ShapeError)
    ELSE IF f.k # "array" THEN Failure(500, InternalError)
    ELSE PredictNumeric(numericFeatures(f), rnd)

----------------------------------------------------------------------------
(* State.                                                                  *)

VARIABLES
    req,        \* server: features of the request last handled
    entropy,    \* server: what Math.random() was about to return
    res,        \* server: the response to req, with the calls it made
    first,      \* history: the first successful request and its score
    features,   \* form: the nine feature values, in key order
    prediction, \* form: the result on display
    loading,    \* form
    error,      \* form
    uploadedData, \* form
    fetch,      \* form: the request in flight
    ops         \* form: how many edits and uploads were made

serverVars == <<req, entropy, res, first>>

clientVars == <<features, prediction, loading, error, uploadedData, fetch, ops>>

vars == <<req, entropy, res, first,
          features, prediction, loading, error, uploadedData, fetch, ops>>

NoRequest == [k |-> "none", n |-> 0, len |-> -1, items |-> <<>>]

NoResponse == Failure(0, [none |-> TRUE])

(* FEATURE_DEFAULTS, in tenths.                                            *)
FEATURE_DEFAULTS == <<100, 20, 1, 850, 3000, 45, 10, 10, 55000>>

DefaultVector == [i \in 1..NumFeatures |-> Num(FEATURE_DEFAULTS[i])]

----------------------------------------------------------------------------
(* Requests.                                                               *)

(* The default vector with period p, radius r and temperature t.           *)
Vector(p, r, t) ==
    [DefaultVector EXCEPT ![1] = Num(p), ![2] = Num(r), ![5] = Num(t)]

(* Vectors on both sides of every threshold of the three rules.            *)
NumericVectors ==
    {Vector(p, r, t) : p \in {5, 100}, r \in {20, 70, 150}, t \in {3000, 5000}}
    \cup {Vector(p, 20, 3000) : p \in {9, 10}}
    \cup {Vector(100, r, 3000) : r \in {5, 6, 39, 40, 100, 101}}
    \cup {Vector(100, 20, t) : t \in {2000, 2001, 3999, 4000}}

(* Elements parseFloat accepts although they are not finite numbers        *)
(* written out: "12abc", " 2.5", "Infinity", "-Infinity", "1e999" and the  *)
(* number 1e999 of a JSON body.                                            *)
OddElements ==
    {Str(<<"1", "2", "a", "b", "c">>), Str(<<" ", "2", ".", "5">>),
     Str(InfinityChars), Str(<<"-">> \o InfinityChars),
     Str(<<"1", "e", "9", "9", "9">>), Inf(1)}

(* Elements parseFloat turns into NaN.                                     *)
BadElements ==
    {Str(<<>>), Str(<<" ">>), Str(<<"a", "b", "c">>), Str(<<".">>), Null, Bool(1)}

OddSlots == {1, 2, 9}

BadSlots == {1, 9}

Shapes ==
    {Undefined, NullFeatures, NumberF(0), NumberF(90), StringF(0), StringF(8),
     StringF(9), ObjectF(-1), ObjectF(9), ArrayF(<<>>),
     ArrayF(SubSeq(DefaultVector, 1, 8)), ArrayF(Append(DefaultVector, Num(10)))}

Bodies ==
    Shapes
    \cup {ArrayF(v) : v \in NumericVectors}
    \cup {ArrayF([DefaultVector EXCEPT ![i] = e]) : i \in OddSlots, e \in OddElements}
    \cup {ArrayF([DefaultVector EXCEPT ![i] = e]) : i \in BadSlots, e \in BadElements}

(* What Math.random() returns next.  In Spec the nine draws of a request   *)
(* follow one of RandGrid patterns (all equal, or cycling through the grid *)
(* with stride k); SpecExplain takes all nine draws independently.         *)
SeededDraws ==
    {[i \in 1..NumFeatures |-> (k * i + k) % RandGrid] : k \in 0..(RandGrid - 1)}

AllDraws == [1..NumFeatures -> 0..(RandGrid - 1)]

----------------------------------------------------------------------------
(* The server.                                                             *)

FormInit ==
    /\ features = [i \in 1..NumFeatures |->
                      [key |-> featureNames[i], value |-> Num(FEATURE_DEFAULTS[i])]]
    /\ prediction = <<>>
    /\ loading = FALSE
    /\ error = <<>>
    /\ uploadedData = <<>>
    /\ fetch = <<>>
    /\ ops = 0

ServerInit ==
    /\ req = NoRequest
    /\ res = NoResponse
    /\ first = <<>>

Init ==
    /\ ServerInit
    /\ entropy \in SeededDraws
    /\ FormInit

(* app.post('/predict', ...) on the body { features: f }.  mockPredict     *)
(* uses up the nine pending draws.                                         *)
Serve(f) ==
    /\ Len(entropy) >= NumFeatures
    /\ \E out \in {PredictHandler(f, entropy)} :
        /\ req' = f
        /\ res' = out
        /\ entropy' = SubSeq(entropy, out.drawn + 1, Len(entropy))
    /\ UNCHANGED clientVars

Predict(f) == Serve(f) /\ UNCHANGED first

(* The random source moves on: its next nine outputs.                      *)
Reseed ==
    /\ entropy = <<>>
    /\ entropy' \in SeededDraws
    /\ UNCHANGED <<req, res, first>>
    /\ UNCHANGED clientVars

Next ==
    \/ \E f \in Bodies : Predict(f)
    \/ Reseed

Spec == Init /\ [][Next]_vars

----------------------------------------------------------------------------
(* The server with a record of the first request it scored.                *)

HistoryBodies ==
    {ArrayF(Vector(p, r, 3000)) : p \in {5, 100}, r \in {20, 70, 150}}
    \cup {ArrayF([DefaultVector EXCEPT ![2] = Str(<<"2">>)]),
          ArrayF([DefaultVector EXCEPT ![9] = Str(<<"a", "b", "c">>)]),
          ArrayF([DefaultVector EXCEPT ![9] = Str(InfinityChars)]),
          StringF(9)}

PredictRecorded(f) ==
    /\ Serve(f)
    /\ first' = IF first = <<>> /\ res'.status = 200
                THEN <<[features        |-> numericFeatures(f),
                        predicted_class |-> res'.json.predicted_class,
                        probabilities   |-> res'.json.probabilities,
                        top_features    |-> res'.json.top_features]>>
                ELSE first

NextHistory ==
    \/ \E f \in HistoryBodies : PredictRecorded(f)
    \/ Reseed

SpecHistory == Init /\ [][NextHistory]_vars

----------------------------------------------------------------------------
(* One request with every combination of nine draws.                       *)

ExplainBodies == {ArrayF(DefaultVector)}

InitExplain ==
    /\ ServerInit
    /\ entropy \in AllDraws
    /\ FormInit

NextExplain == \E f \in ExplainBodies : Predict(f)

SpecExplain == InitExplain /\ [][NextExplain]_vars

----------------------------------------------------------------------------
(* The form (App.tsx).  An object is the sequence of its properties in     *)
(* insertion order, which is the order Object.keys and Object.values use.  *)

MaxOps == 2

(* { ...obj, [key]: v }                                                    *)
SetKey(obj, key, v) ==
    IF \E i \in 1..Len(obj) : obj[i].key = key
    THEN [i \in 1..Len(obj) |-> IF obj[i].key = key THEN [obj[i] EXCEPT !.value = v]
                                ELSE obj[i]]
    ELSE Append(obj, [key |-> key, value |-> v])

RECURSIVE ObjectValues(_)
ObjectValues(obj) ==
    IF obj = <<>> THEN <<>> ELSE <<Head(obj).value>> \o ObjectValues(Tail(obj))

RECURSIVE ObjectKeys(_)
ObjectKeys(obj) ==
    IF obj = <<>> THEN <<>> ELSE <<Head(obj).key>> \o ObjectKeys(Tail(obj))

(* x || y for a number x: NaN and 0 are falsy.                             *)
OrElse(x, y) == IF x.t = "nan" \/ (x.t = "num" /\ x.n = 0) THEN y ELSE x

(* What the number inputs of the form deliver.                             *)
EditValues == {<<>>, <<"0", ".", "5">>}

handleFeatureChange(feature, value) ==
    /\ ops < MaxOps
    /\ ops' = ops + 1
    /\ features' = SetKey(features, feature, OrElse(parseFloat(Str(value)), Num(0)))
    /\ UNCHANGED <<prediction, loading, error, uploadedData, fetch>>
    /\ UNCHANGED serverVars

(* String.prototype.trim                                                   *)
RECURSIVE TrimEnd(_)
TrimEnd(cs) ==
    IF cs # <<>> /\ IsWhiteSpace(cs[Len(cs)]) THEN TrimEnd(SubSeq(cs, 1, Len(cs) - 1))
    ELSE cs

Trim(cs) == TrimEnd(SkipWhiteSpace(cs))

(* A chosen file: the end of its name, and its content.  The content of a  *)
(* .json file is given by what JSON.parse makes of it: a SyntaxError       *)
(* (json = "throws"), a value that is not an object (json = "falsy" or     *)
(* "truthy"), or an object (json = "object") whose property under the i-th *)
(* feature name is props[i], undefined when it has none.  The content of a *)
(* .csv file is the sequence of its lines, each the sequence of its        *)
(* comma-separated cells.                                                  *)
JsonFile(kind, props) ==
    [ext |-> ".json", json |-> kind, props |-> props, lines |-> <<>>]

CsvFile(lines) ==
    [ext |-> ".csv", json |-> "none", props |-> <<>>, lines |-> lines]

OtherFile == [ext |-> ".txt", json |-> "none", props |-> <<>>, lines |-> <<>>]

NoProps == [i \in 1..NumFeatures |-> undefined]

HeaderLine == [i \in 1..NumFeatures |-> featureNames[i]]

(* The cells "0.5", "15", "0.1", "85", "300", "4.5", "1", "1", "5500".     *)
SampleRow ==
    <<<<"0", ".", "5">>, <<"1", "5">>, <<"0", ".", "1">>, <<"8", "5">>,
      <<"3", "0", "0">>, <<"4", ".", "5">>, <<"1">>, <<" ", "1">>,
      <<"5", "5", "0", "0">>>>

Files ==
    {OtherFile,
     JsonFile("throws", NoProps), JsonFile("falsy", NoProps),
     JsonFile("truthy", NoProps),
     JsonFile("object", [i \in 1..NumFeatures |-> Num(10 * i)])}
    \cup {JsonFile("object", [NoProps EXCEPT ![2] = v]) :
              v \in {Str(<<"3", ".", "5">>), Str(<<"a", "b", "c">>),
                     Str(InfinityChars), Inf(1)}}
    \cup {CsvFile(<<HeaderLine>>),
          CsvFile(<<HeaderLine, SampleRow>>),
          CsvFile(<<HeaderLine, SubSeq(SampleRow, 1, 8)>>),
          CsvFile(<<HeaderLine, [SampleRow EXCEPT ![1] = <<"0">>, ![2] = <<>>]>>),
          CsvFile(<<HeaderLine, [SampleRow EXCEPT ![9] = InfinityChars]>>)}

(* lines[1]?.split(',').map(v => parseFloat(v.trim()))                     *)
RECURSIVE CsvValues(_)
CsvValues(cells) ==
    IF cells = <<>> THEN <<>>
    ELSE <<parseFloat(Str(Trim(Head(cells))))>> \o CsvValues(Tail(cells))

(* The data read from a file: <<>> while data is undefined or falsy, else  *)
(* <<props>>.  A .csv file yields data when its second line has at least   *)
(* nine cells: data[key] = values[index] || FEATURE_DEFAULTS[key].         *)
FileData(file) ==
    CASE file.ext = ".json" /\ file.json \in {"object", "truthy"} -> <<file.props>>
      [] file.ext = ".json" /\ file.json = "falsy" -> <<>>
      [] file.ext = ".csv" /\ Len(file.lines) >= 2 /\ Len(file.lines[2]) >= NumFeatures ->
             <<[i \in 1..NumFeatures |->
                   OrElse(CsvValues(file.lines[2])[i], Num(FEATURE_DEFAULTS[i]))]>>
      [] file.ext = ".csv" /\ ~(Len(file.lines) >= 2 /\ Len(file.lines[2]) >= NumFeatures) -> <<>>
      [] file.ext \notin {".json", ".csv"} -> <<>>

(* newFeatures: the defaults, overwritten by every data[key] that is       *)
(* defined and parses to a number.                                         *)
NewFeatures(props) ==
    [i \in 1..NumFeatures |->
        [key   |-> featureNames[i],
         value |-> IF props[i].t # "undefined" /\ ~isNaN(parseFloat(props[i]))
                   THEN parseFloat(props[i]) ELSE Num(FEATURE_DEFAULTS[i])]]

ParseError == "Failed to parse file. Please check the format."

(* handleFileUpload with the reader's onload callback; picked is <<>> when *)
(* no file was chosen.                                                     *)
handleFileUpload(picked) ==
    /\ ops < MaxOps
    /\ ops' = ops + 1
    /\ IF picked = <<>>
       THEN UNCHANGED <<features, uploadedData, error>>
       ELSE IF picked[1].ext = ".json" /\ picked[1].json = "throws"
       THEN /\ error' = <<ParseError>>
            /\ UNCHANGED <<features, uploadedData>>
       ELSE \E data \in {FileData(picked[1])} :
                IF data = <<>>
                THEN UNCHANGED <<features, uploadedData, error>>
                ELSE /\ features' = NewFeatures(data[1])
                     /\ uploadedData' = data
                     /\ error' = <<>>
    /\ UNCHANGED <<prediction, loading, fetch>>
    /\ UNCHANGED serverVars

(* JSON.stringify({ features: featureArray }) as the server reads it.      *)
RECURSIVE JsonArray(_)
JsonArray(xs) ==
    IF xs = <<>> THEN <<>> ELSE <<JsonRoundTrip(Head(xs))>> \o JsonArray(Tail(xs))

RequestBody(obj) == ArrayF(JsonArray(ObjectValues(obj)))

ConnectError ==
    "Failed to connect to prediction service. Make sure the backend is running."

(* handlePredict up to the await of fetch; the button is disabled while    *)
(* loading.                                                                *)
handlePredict ==
    /\ ~loading
    /\ loading' = TRUE
    /\ error' = <<>>
    /\ fetch' = <<[body |-> RequestBody(features), keys |-> ObjectKeys(features)]>>
    /\ UNCHANGED <<features, prediction, uploadedData, ops>>
    /\ UNCHANGED serverVars

(* fetch rejecting without the finally clause.                             *)
FetchRejects_NoFinally ==
    /\ fetch # <<>>
    /\ error' = <<ConnectError>>
    /\ fetch' = <<>>
    /\ UNCHANGED <<features, prediction, uploadedData, ops, loading>>
    /\ UNCHANGED serverVars

(* fetch rejects: the service cannot be reached.                           *)
FetchRejects ==
    /\ fetch # <<>>
    /\ error' = <<ConnectError>>
    /\ loading' = FALSE
    /\ fetch' = <<>>
    /\ UNCHANGED <<features, prediction, uploadedData, ops>>
    /\ UNCHANGED serverVars

(* fetch resolves with the server's response to the body.                  *)
FetchResolves ==
    /\ fetch # <<>>
    /\ \E rnd \in SeededDraws :
         \E out \in {PredictHandler(fetch[1].body, rnd)} :
            IF out.status = 200
            THEN prediction' = <<out.json>> /\ UNCHANGED error
            ELSE error' = <<ConnectError>> /\ UNCHANGED prediction
    /\ loading' = FALSE
    /\ fetch' = <<>>
    /\ UNCHANGED <<features, uploadedData, ops>>
    /\ UNCHANGED serverVars

InitClient ==
    /\ ServerInit
    /\ entropy = <<>>
    /\ FormInit

NextClient ==
    \/ \E i \in 1..NumFeatures, value \in EditValues :
           handleFeatureChange(featureNames[i], value)
    \/ \E picked \in {<<>>} \cup {<<file>> : file \in Files} : handleFileUpload(picked)
    \/ handlePredict
    \/ FetchRejects
    \/ FetchResolves

SpecClient == InitClient /\ [][NextClient]_vars

(* The form with the inputs that decide how a prediction request ends: an  *)
(* edit of the period or the radius, a file that does not parse, one that  *)
(* gives nine numbers and one whose radius is 1e999.  The promise fetch    *)
(* returns always settles: it resolves with a response or rejects with a   *)
(* network error.                                                          *)
FormSlots == {1, 2}

FormFiles ==
    {JsonFile("throws", NoProps),
     JsonFile("object", [i \in 1..NumFeatures |-> Num(10 * i)]),
     JsonFile("object", [NoProps EXCEPT ![2] = Inf(1)])}

NextForm ==
    \/ \E i \in FormSlots, value \in EditValues :
           handleFeatureChange(featureNames[i], value)
    \/ \E picked \in {<<>>} \cup {<<file>> : file \in FormFiles} : handleFileUpload(picked)
    \/ handlePredict
    \/ FetchRejects
    \/ FetchResolves

SpecForm == InitClient /\ [][NextForm]_vars /\ WF_vars(FetchRejects \/ FetchResolves)

----------------------------------------------------------------------------
(* Properties of the server.                                               *)

One == <<LimbBase, 0>>

(* 1e-9, in units of 2^-56.                                                *)
Tolerance == LongDiv(<<Zero, <<0, 1>>>>, <<10^9 \div LimbBase, 10^9 % LimbBase>>, FracBits)[1]

ClassLabels == {"Confirmed", "Candidate", "False Positive"}

(* The request passes validation: nine elements, each parsed to a number.  *)
ValidRequest(f) ==
    /\ f.k = "array"
    /\ Len(f.items) = 9
    /\ \A i \in 1..9 : parseFloat(f.items[i]).t # "nan"

Answered == req.k # "none"

IsResult(json) ==
    /\ DOMAIN json = {"predicted_class", "probabilities", "top_features"}
    /\ json.predicted_class \in ClassLabels
    /\ DOMAIN json.probabilities = ClassLabels
    /\ Len(json.top_features) > 0
    /\ \A i \in 1..Len(json.top_features) :
           DOMAIN json.top_features[i] = {"feature", "importance", "value"}

IsError(json) == "error" \in DOMAIN json

(* The exact sum of the three probabilities of a result.                   *)
ProbabilitySum(json) ==
    Add(Add(json.probabilities["Confirmed"], json.probabilities["Candidate"]),
        json.probabilities["False Positive"])

(* C1: for every request that passes validation the three returned         *)
(* probabilities are each in [0, 1] and their sum is within 1e-9 of 1,     *)
(* whichever rules fired.                                                  *)
C1_ProbabilitiesSumToOne ==
    ValidRequest(req) =>
        /\ res.status = 200
        /\ \A l \in ClassLabels :
               Geq(res.json.probabilities[l], Zero) /\ Geq(One, res.json.probabilities[l])
        /\ Geq(Add(ProbabilitySum(res.json), Tolerance), One)
        /\ Geq(Add(One, Tolerance), ProbabilitySum(res.json))

(* A scored request in which the short-period rule fired and the three     *)
(* probabilities, as doubles, do not add up to 1 exactly.                  *)
C1_Witness ==
    /\ ValidRequest(req)
    /\ res.status = 200
    /\ ProbabilitySum(res.json) # One
    /\ \E f \in {numericFeatures(req)} : ShortPeriodRule(f) /\ ~LargeRadiusRule(f)

(* C2: predicted_class is the label of the first class, in the order       *)
(* Confirmed, Candidate, False Positive, whose probability is maximal.     *)
C2_PredictedClassIsFirstMaximum ==
    ValidRequest(req) =>
        \E i \in 1..3 :
            /\ res.json.predicted_class = labels[i]
            /\ \A j \in 1..3 :
                   Geq(res.json.probabilities[labels[i]], res.json.probabilities[labels[j]])
            /\ \A j \in 1..(i - 1) :
                   res.json.probabilities[labels[j]] # res.json.probabilities[labels[i]]

(* A scored request in which the last class wins while the first two are   *)
(* level.                                                                  *)
C2_Witness ==
    /\ ValidRequest(req)
    /\ res.json.predicted_class = "False Positive"
    /\ res.json.probabilities["Confirmed"] = res.json.probabilities["Candidate"]

(* C3: a request whose features are missing or whose length is not 9 is    *)
(* answered with the shape error and never with a prediction.              *)
C3_WrongShapeRejected ==
    (Answered /\ (req.k = "undefined" \/ req.len # 9)) =>
        /\ res.status = 400
        /\ res.json = ShapeError
        /\ res.mockCalls = 0
        /\ ~IsResult(res.json)

(* An array of eight elements was rejected.                                *)
C3_Witness ==
    /\ req.k = "array"
    /\ req.len = 8
    /\ res.json = ShapeError

(* C4: a nine-element request is rejected with the not-numeric error if    *)
(* any element does not parse to a finite number, and only vectors of nine *)
(* finite numbers reach the scorer.                                        *)
C4_OnlyFiniteVectorsScored ==
    (Answered /\ req.k = "array" /\ req.len = 9) =>
        IF \A i \in 1..9 : parseFloat(req.items[i]).t = "num"
        THEN res.mockCalls = 1
        ELSE res.json = NotNumericError /\ res.mockCalls = 0

(* C5: a request yields either a fully populated result or an error        *)
(* object; when validation fails neither mockPredict nor Math.random is    *)
(* called, and when it passes mockPredict returns a result.                *)
C5_ResultOrError ==
    Answered =>
        /\ IsResult(res.json) # IsError(res.json)
        /\ ~ValidRequest(req) =>
               IsError(res.json) /\ res.mockCalls = 0 /\ res.drawn = 0
        /\ ValidRequest(req) =>
               IsResult(res.json) /\ res.status = 200 /\ res.mockCalls = 1

(* A request that failed the numeric check, answered without a call.       *)
C5_Witness ==
    /\ req.k = "array"
    /\ req.len = 9
    /\ ~ValidRequest(req)
    /\ res.json = NotNumericError
    /\ res.drawn = 0

(* C9: the weights before normalisation are the base weights plus the      *)
(* bonus of each rule whose guard holds: Confirmed + 0.2 iff               *)
(* 0.5 < koi_prad < 4 and 200 < koi_teq < 400, False Positive + 0.3 iff    *)
(* koi_prad > 10, then + 0.2 iff koi_period < 1; Candidate is untouched.   *)
C9_WeightsAreBasePlusBonuses ==
    ValidRequest(req) =>
        \E period \in {parseFloat(req.items[1])},
           prad \in {parseFloat(req.items[2])},
           teq \in {parseFloat(req.items[5])} :
            LET window == /\ JsGt(prad, 5) /\ JsLt(prad, 40)
                          /\ JsGt(teq, 2000) /\ JsLt(teq, 4000)
                large  == JsGt(prad, 100)
                short  == JsLt(period, 10)
                fp1    == IF large THEN fadd(Literal(34, 100), Literal(3, 10))
                          ELSE Literal(34, 100)
            IN  /\ res.weights[1] = IF window THEN fadd(Literal(33, 100), Literal(2, 10))
                                    ELSE Literal(33, 100)
                /\ res.weights[2] = Literal(33, 100)
                /\ res.weights[3] = IF short THEN fadd(fp1, Literal(2, 10)) ELSE fp1

(* A scored request in which both false-positive rules fired.              *)
C9_Witness ==
    /\ ValidRequest(req)
    /\ res.weights[1] = Literal(33, 100)
    /\ res.weights[3] = fadd(fadd(Literal(34, 100), Literal(3, 10)), Literal(2, 10))

----------------------------------------------------------------------------
(* Properties of the explainer (SpecExplain).                              *)

FeatureIndex(name) == CHOOSE i \in 1..NumFeatures : featureNames[i] = name

(* C6: top_features has min(TopK, 9) entries in non-increasing absolute    *)
(* importance, and entries of equal absolute importance are in the         *)
(* original feature order.                                                 *)
C6_TopFeaturesSorted ==
    ValidRequest(req) =>
        LET top == res.json.top_features
        IN  /\ Len(top) = IF TopK < 9 THEN TopK ELSE 9
            /\ \A i, j \in 1..Len(top) :
                   i < j =>
                       /\ Abs(top[i].importance) >= Abs(top[j].importance)
                       /\ Abs(top[i].importance) = Abs(top[j].importance) =>
                              FeatureIndex(top[i].feature) < FeatureIndex(top[j].feature)

(* A result whose second and third entries have opposite importances of    *)
(* the same magnitude, below the first.                                    *)
C6_Witness ==
    /\ ValidRequest(req)
    /\ Abs(res.json.top_features[1].importance) > Abs(res.json.top_features[2].importance)
    /\ res.json.top_features[2].importance = -res.json.top_features[3].importance
    /\ res.json.top_features[2].importance # 0

(* C10 as claimed: every importance lies strictly between -1 and 1.        *)
C10_ImportanceInOpenInterval ==
    ValidRequest(req) =>
        \A i \in 1..Len(res.json.top_features) :
            /\ res.json.top_features[i].importance > -RandGrid
            /\ res.json.top_features[i].importance < RandGrid

(* C10, amended: every importance lies in [-1, 1): 1 is never produced,    *)
(* -1 is (when Math.random() returns 0).                                   *)
C10_ImportanceInHalfOpenInterval ==
    ValidRequest(req) =>
        \A i \in 1..Len(res.json.top_features) :
            /\ res.json.top_features[i].importance >= -RandGrid
            /\ res.json.top_features[i].importance < RandGrid

(* A result with an importance of exactly -1 next to a positive one.       *)
C10_Witness ==
    /\ ValidRequest(req)
    /\ \E i \in 1..Len(res.json.top_features) :
           res.json.top_features[i].importance = -RandGrid
    /\ \E i \in 1..Len(res.json.top_features) :
           res.json.top_features[i].importance > 0

----------------------------------------------------------------------------
(* Properties of the server's history (SpecHistory).                       *)

(* C7: a request with the same feature vector as the first scored request  *)
(* gets the same predicted_class and the same probabilities, whatever was  *)
(* drawn for either and whatever was served in between.                    *)
C7_ScoreDeterministic ==
    (first # <<>> /\ ValidRequest(req) /\ numericFeatures(req) = first[1].features) =>
        /\ res.json.predicted_class = first[1].predicted_class
        /\ res.json.probabilities = first[1].probabilities

(* The same vector scored again with other draws: the top features differ. *)
C7_Witness ==
    /\ first # <<>>
    /\ ValidRequest(req)
    /\ numericFeatures(req) = first[1].features
    /\ res.json.top_features # first[1].top_features

----------------------------------------------------------------------------
(* Properties of the form (SpecClient).                                    *)

(* C8: the body handlePredict sends carries exactly nine numeric features  *)
(* in the fixed order, a sequence the server's validation accepts.         *)
C8_RequestBodyIsValid ==
    fetch # <<>> =>
        /\ fetch[1].body.k = "array"
        /\ Len(fetch[1].body.items) = 9
        /\ fetch[1].keys = featureNames
        /\ \A i \in 1..9 : fetch[1].body.items[i].t = "num"
        /\ ValidRequest(fetch[1].body)

(* The classes whose probability in p is maximal.                          *)
MaximalClasses(p) ==
    {l \in ClassLabels : \A k \in ClassLabels : Geq(p[l], p[k])}

(* C11: whenever mockPredict has scored a request, and for each of the     *)
(* eight combinations of fired rules, exactly one class attains the        *)
(* maximal probability and it is Confirmed or False Positive, which is the *)
(* predicted class: Candidate never wins and no tie is broken.             *)
C11_UniqueMaximumNeverCandidate ==
    /\ res.mockCalls = 1 =>
           /\ Cardinality(MaximalClasses(res.json.probabilities)) = 1
           /\ MaximalClasses(res.json.probabilities) = {res.json.predicted_class}
           /\ res.json.predicted_class \in {"Confirmed", "False Positive"}
    /\ \A cr \in BOOLEAN, lr \in BOOLEAN, sr \in BOOLEAN :
           \E p \in {Normalize(WeightsOf(cr, lr, sr))} :
               /\ Gt(p[1], p[2]) \/ Gt(p[3], p[2])
               /\ p[1] # p[3]

(* A scored request in which the confirmed rule and the short-period rule  *)
(* both fired, the closest the two leading classes come, and False         *)
(* Positive won.                                                           *)
C11_Witness ==
    /\ res.mockCalls = 1
    /\ req.k = "array"
    /\ \E f \in {numericFeatures(req)} :
           ConfirmedRule(f) /\ ShortPeriodRule(f) /\ ~LargeRadiusRule(f)
    /\ res.json.predicted_class = "False Positive"

(* A step in which handlePredict starts, and one in which its fetch        *)
(* settles.                                                                *)
PredictStarts == fetch = <<>> /\ fetch' # <<>>

PredictSettles == fetch # <<>> /\ fetch' = <<>>

(* The responses the server can give to the request in flight.             *)
Responses == {PredictHandler(fetch[1].body, rnd) : rnd \in SeededDraws}

(* The failing outcome of handlePredict: the error is set and the          *)
(* prediction shown before stays.                                          *)
SettlesFailing ==
    /\ ~loading'
    /\ error' = <<ConnectError>>
    /\ prediction' = prediction

(* handlePredict from its start to a failing end, and its liveness.        *)
PredictStartsAndFails ==
    /\ [][PredictStarts => loading' /\ error' = <<>>]_vars
    /\ [][(PredictSettles /\ \A out \in Responses : out.status # 200)
             => SettlesFailing]_vars
    /\ loading ~> ~loading

(* C12 as stated: handlePredict sets loading and clears error when it      *)
(* starts and eventually resets loading; a failing fetch sets error and    *)
(* keeps the prediction, a successful one replaces the prediction by the   *)
(* response and error is null afterwards.                                  *)
C12_SuccessLeavesErrorNull ==
    /\ PredictStartsAndFails
    /\ [][PredictSettles =>
            \/ SettlesFailing
            \/ /\ ~loading'
               /\ \E out \in Responses : out.status = 200 /\ prediction' = <<out.json>>
               /\ error' = <<>>]_vars

(* C12 amended: as above, except that a successful fetch leaves error as   *)
(* it is, which is null unless a file upload failed while the request was  *)
(* in flight.                                                              *)
C12_SuccessLeavesErrorUnchanged ==
    /\ PredictStartsAndFails
    /\ [][PredictSettles =>
            \/ SettlesFailing
            \/ /\ ~loading'
               /\ \E out \in Responses : out.status = 200 /\ prediction' = <<out.json>>
               /\ error' = error]_vars

(* A prediction has arrived and the form shows the error of a file upload. *)
C12_Witness ==
    /\ ~loading
    /\ fetch = <<>>
    /\ prediction # <<>>
    /\ error = <<ParseError>>

====
